---- MODULE Spec2Model ----
(***************************************************************************)
(* Model of the chat proxy of genz-social-feed:                            *)
(*   - the three non-streaming /api/assistant handlers                     *)
(*       "session"  src/netlify/functions/assistant.mts 14-81              *)
(*       "netlify"  src/netlify/functions/assistant.mts 87-164             *)
(*       "patched"  src/unnamed/part_001 701-755                           *)
(*     with the process-lifetime threadMap and the upstream Assistants API *)
(*     (threads, messages, runs) as the environment;                       *)
(*   - the streaming relay /api/avery (src/unnamed/part_002) and the       *)
(*     frame parser of useSSE (src/unnamed/part_000);                      *)
(*   - the delivery status machine of the chat widget                      *)
(*     (src/unnamed/part_001 92-142 and 390-449).                          *)
(* Strings whose content matters (texts, replies, stream bytes) are        *)
(* sequences of one-character strings, so that join, trim, split and       *)
(* startsWith are computed and not assumed.                                *)
(***************************************************************************)
EXTENDS Integers, Sequences, FiniteSets, TLC

VARIABLES
    \* ---- non-streaming endpoint -------------------------------------
    variant,     \* which handler is deployed at /api/assistant
    mode,        \* the scenario: "poll" one request, any upstream run;
                 \* "seq" requests that do not overlap; "conc" requests that
                 \* interleave (in both, the deployment is fully configured
                 \* and the upstream prompt and terse)
    env,         \* process environment: [key, asst] (is the variable set?)
    threadMap,   \* the module-level Map sessionId -> threadId
    threads,     \* upstream: threads[t] is the message list of thread t
    req,         \* per request: parameters, locals and position of the handler
    \* ---- streaming relay --------------------------------------------
    relay,       \* the ReadableStream start() of /api/avery
    \* ---- chat widget ------------------------------------------------
    chat         \* the widget: messages, sending, timers, calls in flight

vars == <<variant, mode, env, threadMap, threads, req, relay, chat>>

serverVars == <<variant, mode, env, threadMap, threads, req>>

(***************************************************************************)
(* Bounds of the model.                                                    *)
(***************************************************************************)
NumReqs == 2          \* requests the endpoint receives in one behaviour
LatencyMs == 250      \* the largest extra delay of one retrieve round trip
MaxChunks == 3        \* chunks the upstream generator yields in one stream
MaxRead == 2          \* a read returns at most this many atoms, or all there is
MaxSends == 2         \* send and retry gestures of the user in the chat widget
MaxTokens == 2        \* tokens the streaming chat widget receives in all its streams
MaxHistory == 17      \* entries of the longest history a request body carries

(***************************************************************************)
(* Characters and strings.                                                 *)
(***************************************************************************)
NL == "\n"
SP == " "

IsSpace(c) == c \in {NL, SP}

RECURSIVE TrimStart(_)
TrimStart(s) ==
    IF s = <<>> THEN <<>>
    ELSE IF IsSpace(Head(s)) THEN TrimStart(Tail(s)) ELSE s

RECURSIVE TrimEnd(_)
TrimEnd(s) ==
    IF s = <<>> THEN <<>>
    ELSE IF IsSpace(s[Len(s)]) THEN TrimEnd(SubSeq(s, 1, Len(s) - 1)) ELSE s

\* String.prototype.trim
Trim(s) == TrimEnd(TrimStart(s))

\* Array.prototype.join("\n") of an array of strings
RECURSIVE JoinNL(_)
JoinNL(parts) ==
    IF parts = <<>> THEN <<>>
    ELSE IF Len(parts) = 1 THEN parts[1]
    ELSE parts[1] \o <<NL>> \o JoinNL(Tail(parts))

Reverse(s) == [k \in 1..Len(s) |-> s[Len(s) + 1 - k]]

RECURSIVE SelectRole(_, _)
SelectRole(msgs, role) ==
    IF msgs = <<>> THEN <<>>
    ELSE IF Head(msgs).role = role
         THEN <<Head(msgs)>> \o SelectRole(Tail(msgs), role)
         ELSE SelectRole(Tail(msgs), role)

(***************************************************************************)
(* Values of the non-streaming endpoint.                                   *)
(***************************************************************************)
Variants == {"session", "netlify", "patched"}
Reqs == 1..NumReqs

\* a missing threadId (undefined): falsy in `threadId || ...` and `!tId`
NoThread == 0

\* JSON values a request body can carry as `text`
Str(chars) == [type |-> "string", chars |-> chars]
Undefined == [type |-> "undefined", chars |-> <<>>]
Num42 == [type |-> "number", chars |-> <<"4", "2">>]
Hi == Str(<<"h", "i">>)
TextInputs(m) ==
    IF m = "poll" THEN {Undefined, Str(<<>>), Num42, Hi} ELSE {Undefined, Hi}

\* JavaScript truthiness of such a value (`!text`)
Truthy(v) == v.type = "number" \/ (v.type = "string" /\ v.chars # <<>>)

\* sessionId values of a body; "" stands for an absent sessionId
Sessions == {"s1", "s2"}
SessionInputs == {""} \cup Sessions

\* assistantId values of a body; "" stands for an absent assistantId
AssistantInputs == {"", "asst_body"}

Methods == {"POST", "GET"}

\* the texts of the errors an upstream call can throw
UpstreamErrors == {"Connection error.", "401 Incorrect API key provided: sk-live"}
CallOutcomes(m) ==
    IF m = "poll" THEN {"ok"} \cup UpstreamErrors ELSE {"ok", "Connection error."}

\* run statuses of the Assistants API
NonTerminal == {"queued", "in_progress"}
Failures == {"failed", "cancelled", "expired"}
Terminal == {"completed"} \cup Failures

\* program constants of the polling loops
SessionPolls == 30
PollMs == 500
TimeoutMs == 24000
ListLimit == 10

\* message content: an array of segments
TextSeg(chars) == [type |-> "text", value |-> chars]
ImageSeg == [type |-> "image_file", value |-> <<>>]
\* mutant: the message is appended with the wrong role
UserMsgMisfiled(text) == [role |-> "assistant", content |-> <<TextSeg(text.chars)>>]

UserMsg(text) == [role |-> "user", content |-> <<TextSeg(text.chars)>>]
AssistantMsg(content) == [role |-> "assistant", content |-> content]

\* what a completed run has added to its thread: one assistant message with
\* one of these contents, or (NoMessage) nothing at all
NoMessage == <<[type |-> "none", value |-> <<>>]>>
AssistantOutputs ==
    { <<TextSeg(<<"o", "k">>)>>,
      <<TextSeg(<<SP, NL>>)>>,
      <<ImageSeg, TextSeg(<<"o", "k", SP>>)>>,
      <<TextSeg(<<"a">>), ImageSeg, TextSeg(<<"b">>)>>,
      NoMessage }
RunOutputs(m) ==
    IF m = "poll" THEN AssistantOutputs ELSE {<<TextSeg(<<"o", "k">>)>>}

\* a thread left by an earlier process lifetime, whose id a client may still hold
PriorThread == <<UserMsg(Hi), AssistantMsg(<<TextSeg(<<"o", "l", "d">>)>>)>>

NoResponseText == <<"(", "n", "o", SP, "r", "e", "s", "p", "o", "n", "s", "e", ")">>

(***************************************************************************)
(* Responses.                                                              *)
(***************************************************************************)
NoResp == [code |-> 0, plain |-> "", error |-> "", hasReply |-> FALSE,
           reply |-> <<>>, threadId |-> NoThread]

PlainResp(code, text) == [NoResp EXCEPT !.code = code, !.plain = text]

ErrorResp(code, error, tid) ==
    [NoResp EXCEPT !.code = code, !.error = error, !.threadId = tid]

\* JSON.stringify drops a key whose value is undefined: hasReply is FALSE then
ReplyResp(hasReply, reply, tid) ==
    [NoResp EXCEPT !.code = 200, !.hasReply = hasReply, !.reply = reply,
                   !.threadId = tid]

IdleReq ==
    [pc |-> "idle", method |-> "", text |-> Undefined, threadId |-> NoThread,
     sessionId |-> "", asstId |-> "", tId |-> NoThread, sawMap |-> NoThread,
     looked |-> FALSE, created |-> FALSE, appendedTo |-> NoThread,
     runStarted |-> FALSE, status |-> "none", i |-> 0, elapsed |-> 0,
     first |-> FALSE, exit |-> "", parsed |-> FALSE, caught |-> "", resp |-> NoResp]

\* the handler returns: its loop locals are gone, the response is recorded
Respond(rec, resp) ==
    [rec EXCEPT !.pc = "done", !.resp = resp, !.i = 0, !.elapsed = 0, !.first = FALSE]

\* the catch clause of the deployed handler, for an error with text msg
Catch(v, rec, msg) ==
    LET got == [rec EXCEPT !.caught = msg]
    IN  IF v = "netlify"
        THEN Respond(got, ErrorResp(500, IF msg # "" THEN msg ELSE "Unknown error", NoThread))
        ELSE Respond(got, ErrorResp(500, "Internal Server Error", NoThread))

(***************************************************************************)
(* The upstream run: the statuses a retrieve can return after it returned  *)
(* (or the run was created with) status s.  Outside mode "poll" the        *)
(* upstream is prompt: the first retrieve finds the run completed or       *)
(* failed.                                                                 *)
(***************************************************************************)
RunNext(m, s) ==
    IF s \in Terminal THEN {s}
    ELSE IF m # "poll" THEN {"completed", "failed"}
    ELSE IF s = "queued" THEN NonTerminal \cup Terminal
    ELSE {"in_progress"} \cup Terminal

\* the thread after the run on it went from status s to status s2
AfterRun(thread, s, s2, out) ==
    IF s2 = "completed" /\ s # "completed" /\ out # NoMessage
    THEN Append(thread, AssistantMsg(out))
    ELSE thread

(***************************************************************************)
(* Reply extraction.                                                       *)
(***************************************************************************)
\* messages.list: newest first, at most limit entries (0: no limit given)
ListMessages(thread, limit) ==
    LET desc == Reverse(thread)
    IN  IF limit > 0 /\ Len(desc) > limit THEN SubSeq(desc, 1, limit) ELSE desc

\* mutant: the text segments are dropped
SegmentTextsNone(content) == <<>>

\* content.map(c => c.type === "text" ? c.text.value : "").join("\n")
SegmentTexts(content) ==
    JoinNL([k \in 1..Len(content) |->
               IF content[k].type = "text" THEN content[k].value ELSE <<>>])

\* the 200 response of the deployed handler for the listed messages
ReplyOf(v, thread, tid) ==
    LET list == ListMessages(thread, IF v = "netlify" THEN ListLimit ELSE 0)
        asst == SelectRole(list, "assistant")
    IN  IF v = "session"
        THEN LET joined == IF asst = <<>> THEN <<>> ELSE SegmentTexts(asst[1].content)
             IN  ReplyResp(TRUE, IF joined = <<>> THEN NoResponseText ELSE joined, tid)
        ELSE IF v = "patched"
        THEN IF asst = <<>> THEN ReplyResp(FALSE, <<>>, tid)
             ELSE ReplyResp(TRUE, SegmentTexts(asst[1].content), tid)
        ELSE IF asst = <<>> THEN ReplyResp(TRUE, <<>>, tid)
             ELSE ReplyResp(TRUE, Trim(SegmentTexts(asst[1].content)), tid)

(***************************************************************************)
(* Conversation resolution.                                                *)
(***************************************************************************)
\* threadMap.get(sessionId)
MapGet(map, sid) == IF sid \in DOMAIN map THEN map[sid] ELSE NoThread

\* mutant: the lookup of the index is left out
ResolveThreadNoLookup(v, threadId, map, sid) == threadId

\* `threadId || threadMap.get(sessionId)`; the netlify handler has no index
ResolveThread(v, threadId, map, sid) ==
    IF threadId # NoThread THEN threadId
    ELSE IF v = "netlify" THEN NoThread
    ELSE MapGet(map, sid)

\* mutant: the new conversation is not stored
MapSetDropped(v, map, sid, tid) == map

\* threadMap.set(sessionId, finalThreadId); the netlify handler has no index
MapSet(v, map, sid, tid) ==
    IF v = "netlify" THEN map
    ELSE [k \in DOMAIN map \cup {sid} |-> IF k = sid THEN tid ELSE map[k]]

InFlight(r) == req[r].pc \notin {"idle", "done"}

(***************************************************************************)
(* The handler, one action per stretch between two awaits.                 *)
(***************************************************************************)
\* arrival and the method check, up to `await req.json()`
Receive(r) ==
    /\ req[r].pc = "idle"
    /\ \A q \in Reqs : q < r => req[q].pc # "idle"
    /\ mode = "poll" => r = 1
    /\ mode = "seq" => \A q \in Reqs : ~InFlight(q)
    /\ \E m \in Methods :
         req' = [req EXCEPT ![r] =
                   IF m # "POST"
                   THEN Respond([@ EXCEPT !.method = m],
                                PlainResp(405, "Method not allowed"))
                   ELSE [@ EXCEPT !.method = m, !.pc = "json"]]
    /\ UNCHANGED <<variant, mode, env, threadMap, threads, relay, chat>>

\* the body is parsed: validation, configuration and the index lookup, up to
\* the first upstream call
ParsedSession(rec, text, threadId, sid) ==
    LET got == [rec EXCEPT !.text = text, !.threadId = threadId, !.sessionId = sid,
                           !.parsed = TRUE]
        found == MapGet(threadMap, sid)
        final == ResolveThread(variant, threadId, threadMap, sid)
    IN  IF ~Truthy(text) \/ sid = ""
        THEN Respond(got, PlainResp(400, "Missing 'text' or 'sessionId'"))
        ELSE [got EXCEPT !.looked = TRUE, !.sawMap = found, !.tId = final,
                         !.pc = IF final = NoThread THEN "creating" ELSE "appending"]

ParsedNetlify(rec, text, threadId, aid) ==
    LET asstId == IF aid # "" THEN aid
                  ELSE IF env.asst THEN "asst_env" ELSE ""
        got == [rec EXCEPT !.text = text, !.threadId = threadId, !.parsed = TRUE]
        final == ResolveThread(variant, threadId, threadMap, "")
    IN  IF ~Truthy(text) \/ text.type # "string"
        THEN Respond(got, ErrorResp(400, "Missing 'text'.", NoThread))
        ELSE IF ~env.key
        THEN Respond(got, ErrorResp(500, "OPENAI_API_KEY not set", NoThread))
        ELSE [got EXCEPT !.asstId = asstId, !.looked = TRUE, !.tId = final,
                         !.pc = IF final = NoThread THEN "creating" ELSE "appending"]

Parse(r) ==
    /\ req[r].pc = "json"
    /\ \E valid \in BOOLEAN, text \in TextInputs(mode), threadId \in {NoThread} \cup DOMAIN threads,
          sid \in SessionInputs, aid \in AssistantInputs :
         \* the handler destructures only the fields it names
         /\ variant = "netlify" => sid = ""
         /\ variant # "netlify" => aid = ""
         /\ ~valid => (text = Undefined /\ threadId = NoThread /\ sid = "" /\ aid = "")
         /\ req' = [req EXCEPT ![r] =
                      IF ~valid THEN Catch(variant, @, "Unexpected token in JSON")
                      ELSE IF variant = "netlify"
                      THEN ParsedNetlify(@, text, threadId, aid)
                      ELSE ParsedSession(@, text, threadId, sid)]
    /\ UNCHANGED <<variant, mode, env, threadMap, threads, relay, chat>>

\* threads.create() has resolved (or thrown)
Created(r) ==
    /\ req[r].pc = "creating"
    /\ \E outcome \in CallOutcomes(mode) :
         IF outcome = "ok"
         THEN LET id == Len(threads) + 1
              IN  /\ threads' = Append(threads, <<>>)
                  /\ threadMap' = MapSet(variant, threadMap, req[r].sessionId, id)
                  /\ req' = [req EXCEPT ![r] = [@ EXCEPT !.tId = id, !.created = TRUE,
                                                         !.pc = "appending"]]
         ELSE /\ req' = [req EXCEPT ![r] = Catch(variant, @, outcome)]
              /\ UNCHANGED <<threadMap, threads>>
    /\ UNCHANGED <<variant, mode, env, relay, chat>>

\* messages.create(finalThreadId, {role: "user", content: text}) has resolved
\* (or thrown; the API rejects a content that is not a string)
Appended(r) ==
    /\ req[r].pc = "appending"
    /\ \E outcome \in CallOutcomes(mode) :
         IF outcome = "ok" /\ req[r].text.type = "string"
         THEN /\ threads' = [threads EXCEPT ![req[r].tId] = Append(@, UserMsg(req[r].text))]
              /\ req' = [req EXCEPT ![r] =
                           LET rec == [@ EXCEPT !.appendedTo = req[r].tId]
                           IN  IF variant = "netlify" /\ rec.asstId = ""
                               THEN Respond(rec, ErrorResp(500, "Assistant ID missing.", NoThread))
                               ELSE [rec EXCEPT !.pc = "starting"]]
         ELSE /\ req' = [req EXCEPT ![r] =
                           Catch(variant, @, IF outcome = "ok" THEN "400 Invalid type for 'content'"
                                             ELSE outcome)]
              /\ UNCHANGED threads
    /\ UNCHANGED <<variant, mode, env, threadMap, relay, chat>>

\* runs.create(finalThreadId, {assistant_id}) has resolved (or thrown; the API
\* rejects a missing assistant_id); the first retrieve or sleep is issued
RunStarted(r) ==
    /\ req[r].pc = "starting"
    /\ \E outcome \in CallOutcomes(mode) :
         req' = [req EXCEPT ![r] =
                   IF outcome = "ok" /\ (variant = "netlify" \/ env.asst)
                   THEN [@ EXCEPT !.runStarted = TRUE, !.status = "queued", !.i = 0,
                                  !.first = (variant = "netlify"), !.pc = "polling"]
                   ELSE Catch(variant, @, IF outcome = "ok" THEN "400 Missing assistant_id"
                                          ELSE outcome)]
    /\ UNCHANGED <<variant, mode, env, threadMap, threads, relay, chat>>

\* the session-indexed loop after a retrieve returned status s
\*   for (let i = 0; i < 30; i++) { sleep; retrieve; if completed or failed break }
\*   if (runStatus.status !== "completed") return 500
PolledSession(rec, s) ==
    LET broke == s \in {"completed", "failed"}
        i2 == IF broke THEN rec.i ELSE rec.i + 1
        out == [rec EXCEPT !.status = s, !.i = i2]
    IN  IF ~broke /\ i2 < SessionPolls THEN out
        ELSE IF s = "completed" THEN [out EXCEPT !.pc = "listing", !.exit = "completed"]
        ELSE Respond([out EXCEPT !.exit = IF s \in Terminal THEN "terminal" ELSE "timeout"],
                     ErrorResp(500, "Assistant run did not complete", NoThread))

\* the patched loop:  while (runStatus.status !== "completed") { sleep; retrieve }
\* The loop has no counter; the model counts its retrievals modulo 2, so
\* that every retrieval is a step
PolledPatched(rec, s) ==
    IF s = "completed" THEN [rec EXCEPT !.status = s, !.pc = "listing", !.exit = "completed"]
    ELSE [rec EXCEPT !.status = s, !.i = (@ + 1) % 2]

\* the netlify loop after a retrieve returned status s, lat ms late
\*   status = retrieve; start = now
\*   while (status !== "completed") {
\*     if failed, expired or cancelled: return 500 {error: status}
\*     sleep 500; status = retrieve; if (now - start > 24000) break }
PolledNetlify(rec, s, lat) ==
    LET elapsed == IF rec.first THEN 0 ELSE rec.elapsed + PollMs + lat
        out == [rec EXCEPT !.status = s, !.elapsed = elapsed, !.first = FALSE]
        broke == ~rec.first /\ elapsed > TimeoutMs
    IN  IF broke
        THEN [out EXCEPT !.pc = "listing",
                         !.exit = IF s = "completed" THEN "completed"
                                  ELSE IF s \in Terminal THEN "late" ELSE "timeout"]
        ELSE IF s = "completed" THEN [out EXCEPT !.pc = "listing", !.exit = "completed"]
        ELSE IF s \in Failures
        THEN Respond([out EXCEPT !.exit = "terminal"], ErrorResp(500, s, rec.tId))
        ELSE out

Polled(v, rec, s, lat) ==
    IF v = "session" THEN PolledSession(rec, s)
    ELSE IF v = "patched" THEN PolledPatched(rec, s)
    ELSE PolledNetlify(rec, s, lat)

\* one round of the polling loop: the sleep and the retrieve that follows it
Poll(r) ==
    /\ req[r].pc = "polling"
    /\ \E outcome \in CallOutcomes(mode), s \in RunNext(mode, req[r].status),
          out \in RunOutputs(mode), lat \in {0, LatencyMs} :
         /\ (variant # "netlify" \/ req[r].first) => lat = 0
         /\ ~(s = "completed" /\ req[r].status # "completed") => out = NoMessage
         /\ outcome # "ok" => (s = req[r].status /\ out = NoMessage /\ lat = 0)
         /\ IF outcome = "ok"
            THEN /\ threads' = [threads EXCEPT ![req[r].tId] =
                                   AfterRun(@, req[r].status, s, out)]
                 /\ req' = [req EXCEPT ![r] = Polled(variant, @, s, lat)]
            ELSE /\ req' = [req EXCEPT ![r] = Catch(variant, @, outcome)]
                 /\ UNCHANGED threads
    /\ UNCHANGED <<variant, mode, env, threadMap, relay, chat>>

\* messages.list(finalThreadId) has resolved (or thrown): the reply is extracted
Listed(r) ==
    /\ req[r].pc = "listing"
    /\ \E outcome \in CallOutcomes(mode) :
         req' = [req EXCEPT ![r] =
                   IF outcome = "ok"
                   THEN Respond(@, ReplyOf(variant, threads[@.tId], @.tId))
                   ELSE Catch(variant, @, outcome)]
    /\ UNCHANGED <<variant, mode, env, threadMap, threads, relay, chat>>

ServerNext ==
    \E r \in Reqs :
        \/ Receive(r)
        \/ Parse(r)
        \/ Created(r)
        \/ Appended(r)
        \/ RunStarted(r)
        \/ Poll(r)
        \/ Listed(r)


(***************************************************************************)
(* The streaming relay /api/avery and the frame parser of useSSE.          *)
(* A text is a sequence of atoms: single characters, or a keyword such as  *)
(* "data:" that no read ever needs to look inside.                         *)
(***************************************************************************)
QUOTE == "\""
BSLASH == "\\"

\* JSON.stringify of a string: the characters with newline, quote and
\* backslash escaped
RECURSIVE Escape(_)
Escape(cs) ==
    IF cs = <<>> THEN <<>>
    ELSE (IF Head(cs) = NL THEN <<BSLASH, "n">>
          ELSE IF Head(cs) \in {QUOTE, BSLASH} THEN <<BSLASH, Head(cs)>>
          ELSE <<Head(cs)>>) \o Escape(Tail(cs))

\* JSON.stringify of an object whose values are strings; obj is the sequence
\* of its [k, v] members in insertion order
RECURSIVE Members(_)
Members(obj) ==
    IF obj = <<>> THEN <<>>
    ELSE <<QUOTE, obj[1].k, QUOTE, ":", QUOTE>> \o Escape(obj[1].v) \o <<QUOTE>>
         \o (IF Len(obj) > 1 THEN <<",">> ELSE <<>>) \o Members(Tail(obj))

Stringify(obj) == <<"{">> \o Members(obj) \o <<"}">>

\* JSON.parse, for the same objects.  ScanString reads a string body up to
\* its closing quote: [ok, v, rest]
RECURSIVE ScanString(_, _)
ScanString(s, acc) ==
    IF s = <<>> THEN [ok |-> FALSE, v |-> acc, rest |-> <<>>]
    ELSE IF Head(s) = QUOTE THEN [ok |-> TRUE, v |-> acc, rest |-> Tail(s)]
    ELSE IF Head(s) = BSLASH
    THEN IF Len(s) < 2 THEN [ok |-> FALSE, v |-> acc, rest |-> <<>>]
         ELSE ScanString(SubSeq(s, 3, Len(s)),
                         Append(acc, IF s[2] = "n" THEN NL ELSE s[2]))
    ELSE IF Head(s) = NL THEN [ok |-> FALSE, v |-> acc, rest |-> <<>>]
    ELSE ScanString(Tail(s), Append(acc, Head(s)))

\* [ok, obj]: the members after an opening brace or a comma
RECURSIVE ParseMembers(_, _)
ParseMembers(s, acc) ==
    IF Len(s) < 5 \/ s[1] # QUOTE \/ s[3] # QUOTE \/ s[4] # ":" \/ s[5] # QUOTE
    THEN [ok |-> FALSE, obj |-> acc]
    ELSE LET str == ScanString(SubSeq(s, 6, Len(s)), <<>>)
             acc2 == Append(acc, [k |-> s[2], v |-> str.v])
         IN  IF ~str.ok \/ str.rest = <<>> THEN [ok |-> FALSE, obj |-> acc]
             ELSE IF str.rest = <<"}">> THEN [ok |-> TRUE, obj |-> acc2]
             ELSE IF Head(str.rest) = "," THEN ParseMembers(Tail(str.rest), acc2)
             ELSE [ok |-> FALSE, obj |-> acc]

JsonParse(s) ==
    IF s = <<"{", "}">> THEN [ok |-> TRUE, obj |-> <<>>]
    ELSE IF s = <<>> \/ Head(s) # "{" THEN [ok |-> FALSE, obj |-> <<>>]
    ELSE ParseMembers(Tail(s), <<>>)

\* obj.k, for a key the object has
HasKey(obj, k) == \E n \in 1..Len(obj) : obj[n].k = k
Field(obj, k) == obj[CHOOSE n \in 1..Len(obj) : obj[n].k = k].v
FieldIs(obj, k, v) == HasKey(obj, k) /\ Field(obj, k) = v

\* the frames the relay writes
DeltaFrame(token) ==
    <<"data:">> \o Stringify(<<[k |-> "type", v |-> <<"delta">>],
                               [k |-> "delta", v |-> token]>>) \o <<NL, NL>>
DoneFrame ==
    <<"data:">> \o Stringify(<<[k |-> "type", v |-> <<"done">>]>>) \o <<NL, NL>>
ErrorFrame(msg) ==
    <<"event: error", NL, "data:">>
        \o Stringify(<<[k |-> "message", v |-> msg]>>) \o <<NL, NL>>

\* what a chunk of the upstream generator carries as choices[0].delta.content:
\* a string, or nothing (has = FALSE)
Chunk(has, content) == [has |-> has, content |-> content]
ChunkInputs ==
    { Chunk(FALSE, <<>>), Chunk(TRUE, <<>>), Chunk(TRUE, <<"a">>),
      Chunk(TRUE, <<NL, NL, QUOTE>>) }

\* the messages of the errors the upstream generation call can raise;
\* <<>> stands for an error without a message
RaiseInputs == {<<"b", "o", "o", "m">>, <<>>}

\* `chunk.choices?.[0]?.delta?.content ?? ""`
TokenOf(chunk) == IF chunk.has THEN chunk.content ELSE <<>>

\* mutant: the `if (token)` test is left out
OnChunkUnfiltered(out, chunk) == Append(out, DeltaFrame(TokenOf(chunk)))

\* the body of the for-await loop
OnChunk(out, chunk) ==
    IF TokenOf(chunk) # <<>> THEN Append(out, DeltaFrame(TokenOf(chunk))) ELSE out

\* after the loop: the done event
OnEnd(out) == Append(out, DoneFrame)

\* mutant: the catch clause closes the stream without writing a frame
OnRaiseSilent(out, msg) == out

\* the catch clause: `err?.message || "stream error"`
OnRaise(out, msg) ==
    Append(out, ErrorFrame(IF msg # <<>> THEN msg
                           ELSE <<"stream error">>))

\* `const AVERY_SYSTEM`, the persona text
AVERY_SYSTEM == <<"You are Avery (they/them), a Gen Z AI assistant.">>

\* the default of trimHistory's `max`
HistoryCap == 16

\* the i-th entry of a supplied history
HistoryEntry(i) ==
    [role |-> IF i % 2 = 1 THEN "user" ELSE "assistant", content |-> <<ToString(i)>>]

\* `history` values of a body: arrays of every length up to MaxHistory, an
\* absent key, null and a string
HistoryInputs ==
    {[kind |-> "array", items |-> [i \in 1..n |-> HistoryEntry(i)]] : n \in 0..MaxHistory}
    \cup {[kind |-> k, items |-> <<>>] : k \in {"undefined", "null", "string"}}

\* `message` values of a body
RelayMessages == TextInputs("poll") \cup {Str(<<SP, "h", "i", NL>>), Str(<<SP>>)}

\* the destructuring default `history = []` applies to an absent key only
HistoryDefault(h) ==
    IF h.kind = "undefined" THEN [kind |-> "array", items |-> <<>>] ELSE h

\* mutant: the first `max` entries are kept
TrimHistoryOldest(h) ==
    IF h.kind # "array" THEN <<>>
    ELSE SubSeq(h.items, 1, IF Len(h.items) < HistoryCap THEN Len(h.items) ELSE HistoryCap)

\* trimHistory(history): `history.slice(-max)`, [] for a non-array
TrimHistory(h) ==
    IF h.kind # "array" THEN <<>>
    ELSE SubSeq(h.items,
                IF Len(h.items) > HistoryCap THEN Len(h.items) - HistoryCap + 1 ELSE 1,
                Len(h.items))

\* `const messages = [system, ...trimHistory(history), user]`
BuildMessages(message, history) ==
    <<[role |-> "system", content |-> AVERY_SYSTEM]>>
    \o TrimHistory(HistoryDefault(history))
    \o <<[role |-> "user", content |-> Trim(message.chars)]>>

NoBody == [message |-> Undefined, history |-> [kind |-> "undefined", items |-> <<>>]]

\* body and upstream are the parsed request body and the messages of the
\* completions call while that call is pending
IdleRelay ==
    [pc |-> "idle", code |-> 0, ctype |-> "", yielded |-> <<>>, raised |-> FALSE,
     out |-> <<>>, rd |-> 0, buffer |-> <<>>, events |-> <<>>, reader |-> "reading",
     body |-> NoBody, upstream |-> <<>>]

\* the request arrives: method and message are checked, and for a valid one
\* the Response with the stream as body is returned while start() is at
\* `await client.chat.completions.create(...)`
RelayReceive ==
    /\ relay.pc = "idle"
    /\ \E m \in Methods, message \in RelayMessages, history \in HistoryInputs :
         relay' = IF m # "POST"
                  THEN [relay EXCEPT !.pc = "rejected", !.code = 405, !.ctype = "text/plain"]
                  ELSE IF ~Truthy(message) \/ message.type # "string"
                  THEN [relay EXCEPT !.pc = "rejected", !.code = 400,
                                     !.ctype = "application/json"]
                  ELSE [relay EXCEPT !.pc = "opening", !.code = 200,
                                     !.ctype = "text/event-stream; charset=utf-8",
                                     !.body = [message |-> message, history |-> history],
                                     !.upstream = BuildMessages(message, history)]
    /\ UNCHANGED <<serverVars, chat>>

\* create() has resolved with the generator, or has thrown
RelayOpened ==
    /\ relay.pc = "opening"
    /\ \E ok \in BOOLEAN, msg \in RaiseInputs :
         relay' = IF ok THEN [relay EXCEPT !.pc = "streaming",
                                           !.body = NoBody, !.upstream = <<>>]
                  ELSE [relay EXCEPT !.pc = "closed", !.raised = TRUE,
                                     !.out = OnRaise(@, msg),
                                     !.body = NoBody, !.upstream = <<>>]
    /\ UNCHANGED <<serverVars, chat>>

\* the generator yields one chunk
RelayChunk ==
    /\ relay.pc = "streaming"
    /\ Len(relay.yielded) < MaxChunks
    /\ \E chunk \in ChunkInputs :
         relay' = [relay EXCEPT !.yielded = Append(@, chunk),
                                !.out = OnChunk(@, chunk)]
    /\ UNCHANGED <<serverVars, chat>>

\* the generator is exhausted: done frame and close
RelayEnd ==
    /\ relay.pc = "streaming"
    /\ relay' = [relay EXCEPT !.pc = "closed", !.out = OnEnd(@)]
    /\ UNCHANGED <<serverVars, chat>>

\* the generator throws: the catch clause writes its frame and closes
RelayRaise ==
    /\ relay.pc = "streaming"
    /\ \E msg \in RaiseInputs :
         relay' = [relay EXCEPT !.pc = "closed", !.raised = TRUE,
                                !.out = OnRaise(@, msg)]
    /\ UNCHANGED <<serverVars, chat>>

(***************************************************************************)
(* The reader of useSSE.                                                   *)
(***************************************************************************)
RECURSIVE Flatten(_)
Flatten(frames) ==
    IF frames = <<>> THEN <<>> ELSE Head(frames) \o Flatten(Tail(frames))

\* String.prototype.split("\n\n"): the pieces between blank lines
RECURSIVE SplitBlank(_, _)
SplitBlank(s, piece) ==
    IF s = <<>> THEN <<piece>>
    ELSE IF Len(s) >= 2 /\ s[1] = NL /\ s[2] = NL
    THEN <<piece>> \o SplitBlank(SubSeq(s, 3, Len(s)), <<>>)
    ELSE SplitBlank(Tail(s), Append(piece, Head(s)))

\* the callbacks one part causes:  if (part.startsWith("data:")) { parse;
\* delta -> onToken(delta); done -> onDone() };  a parse error ends the reader
PartEvents(part) ==
    IF part = <<>> \/ Head(part) # "data:" THEN <<>>
    ELSE LET p == JsonParse(Tail(part))
         IN  IF ~p.ok THEN <<[cb |-> "throw", arg |-> <<>>]>>
             ELSE (IF FieldIs(p.obj, "type", <<"delta">>)
                   THEN <<[cb |-> "onToken",
                           arg |-> IF HasKey(p.obj, "delta") THEN Field(p.obj, "delta")
                                   ELSE <<>>]>>
                   ELSE <<>>)
                  \o (IF FieldIs(p.obj, "type", <<"done">>)
                      THEN <<[cb |-> "onDone", arg |-> <<>>]>> ELSE <<>>)

\* mutant: only the first complete part of a read is handled
PartsEventsFirst(parts) == IF parts = <<>> THEN <<>> ELSE PartEvents(Head(parts))

RECURSIVE PartsEvents(_)
PartsEvents(parts) ==
    IF parts = <<>> THEN <<>>
    ELSE LET e == PartEvents(Head(parts))
         IN  IF e # <<>> /\ e[Len(e)].cb = "throw" THEN e
             ELSE e \o PartsEvents(Tail(parts))

\* one reader.read(): n more atoms of the body arrive, or the end of it
SseRead ==
    /\ relay.code = 200
    /\ relay.reader = "reading"
    /\ LET wire == Flatten(relay.out)
       IN  IF relay.rd < Len(wire)
           THEN \E n \in 1..(Len(wire) - relay.rd) :
                  /\ n <= MaxRead \/ n = Len(wire) - relay.rd
                  /\ LET got == SubSeq(wire, relay.rd + 1, relay.rd + n)
                         parts == SplitBlank(relay.buffer \o got, <<>>)
                         ev == PartsEvents(SubSeq(parts, 1, Len(parts) - 1))
                     IN  relay' = [relay EXCEPT
                                     !.rd = @ + n,
                                     !.buffer = parts[Len(parts)],
                                     !.events = @ \o ev,
                                     !.reader = IF ev # <<>> /\ ev[Len(ev)].cb = "throw"
                                                THEN "thrown" ELSE "reading"]
           ELSE /\ relay.pc = "closed"
                /\ relay' = [relay EXCEPT !.reader = "ended"]
    /\ UNCHANGED <<serverVars, chat>>

RelayNext ==
    \/ RelayReceive
    \/ RelayOpened
    \/ RelayChunk
    \/ RelayEnd
    \/ RelayRaise
    \/ SseRead

(***************************************************************************)
(* The chat widget GenZChatDemo: the variant that calls /api/assistant     *)
(* ("real", part_001 70-142) and the one that simulates the reply          *)
(* ("simulated", part_001 356-495).  Time passes in steps of the shortest  *)
(* timer delay; a timer holds the time left until it is due.               *)
(***************************************************************************)
SentDelayMs == 200
DeliveredDelayMs == 600
\* simulateAssistantReply: one character every 10 + random * 25 ms, and the
\* shortest reply of toyPersonaReply has 48 characters
ChunkMinMs == 10
MinReplyChars == 48

Widgets == {"real", "simulated"}

NoContentText == <<"(", "n", "o", SP, "c", "o", "n", "t", "e", "n", "t", ")">>
ToyReply == <<"Z", ":", SP, "g", "o", "t", "c", "h", "a", ".">>

\* the reply strings the endpoint can return
ReplyInputs == {<<"o", "k">>, <<"a", NL, NL, SP, "b">>, <<SP, NL>>, <<>>}

\* String.prototype.split("\n")
RECURSIVE SplitLines(_, _)
SplitLines(s, piece) ==
    IF s = <<>> THEN <<piece>>
    ELSE IF Head(s) = NL THEN <<piece>> \o SplitLines(Tail(s), <<>>)
    ELSE SplitLines(Tail(s), Append(piece, Head(s)))

RECURSIVE NonBlankTrimmed(_)
NonBlankTrimmed(lines) ==
    IF lines = <<>> THEN <<>>
    ELSE (IF Trim(Head(lines)) # <<>> THEN <<Trim(Head(lines))>> ELSE <<>>)
         \o NonBlankTrimmed(Tail(lines))

ChatMsg(role, text, status) == [role |-> role, text |-> text, status |-> status]

\* commitAssistantMessage: the messages it appends.  The real widget splits
\* the text into its non-blank lines, one bubble each; the simulated one
\* commits one bubble
Commit(w, fullText) ==
    IF w = "real"
    THEN LET parts == NonBlankTrimmed(SplitLines(fullText, <<>>))
         IN  [k \in 1..Len(parts) |-> ChatMsg("assistant", parts[k], "none")]
    ELSE <<ChatMsg("assistant", fullText, "none")>>

\* the timer of markStatus(id, status, delayMs)
Timer(msg, status, delay) == [msg |-> msg, status |-> status, left |-> delay]

\* the updater of markStatus: prev.map(m => m.id === id ? {...m, status} : m)
SetStatus(msgs, id, status) ==
    [k \in 1..Len(msgs) |-> IF k = id THEN [msgs[k] EXCEPT !.status = status] ELSE msgs[k]]

IdleChat == [pc |-> "off"]

\* what the user can have in the input box: a text with a trailing space, or
\* only a space
InputTexts == {<<"h", "i", SP>>, <<SP>>}

\* a message list restored by loadState: nothing, or one message that failed
\* in an earlier visit
FailedText == <<"y", "o">>
PersistedInputs(w) ==
    IF w = "simulated" THEN {<<>>, <<ChatMsg("user", FailedText, "failed")>>} ELSE {<<>>}

\* the state a render closes over
Seen(c) == [sending |-> c.sending, threadId |-> c.threadId, input |-> c.input]

NewChat(w, persisted) ==
    [pc |-> "on", widget |-> w, msgs |-> persisted, sending |-> FALSE,
     threadId |-> NoThread, input |-> <<>>,
     seen |-> [sending |-> FALSE, threadId |-> NoThread, input |-> <<>>],
     timers |-> <<>>, calls |-> {}, sent |-> 0]

\* the user edits the input box
TypeInput ==
    /\ chat.pc = "on"
    /\ \E t \in InputTexts :
         /\ t # chat.input
         /\ chat' = [chat EXCEPT !.input = t]
    /\ UNCHANGED <<serverVars, relay>>

\* the body of handleSend up to its await, for the render state `seen` the
\* function closes over:  if (!trimmed || sending) return;  append the user
\* message, clear the input, set sending, schedule the status timers, start
\* the call
Send(c, seen) ==
    LET trimmed == Trim(seen.input)
        id == Len(c.msgs) + 1
    IN  IF trimmed = <<>> \/ seen.sending THEN c
        ELSE [c EXCEPT
                !.msgs = Append(@, ChatMsg("user", trimmed, "sending")),
                !.input = <<>>,
                !.sending = TRUE,
                !.timers = @ \o <<Timer(id, "sent", SentDelayMs),
                                  Timer(id, "delivered", DeliveredDelayMs)>>,
                !.calls = @ \cup {[msg |-> id, age |-> 0, threadId |-> seen.threadId]}]

\* the user presses send: handleSend as the last render defined it, which
\* reads `input`, `sending` and `threadId` of that render
HandleSend ==
    /\ chat.pc = "on"
    /\ chat.sent < MaxSends
    /\ Send(chat, chat.seen) # chat
    /\ chat' = [Send(chat, chat.seen) EXCEPT !.sent = @ + 1]
    /\ UNCHANGED <<serverVars, relay>>

\* the timer of retry: setTimeout(() => handleSend(), 0), with the handleSend
\* of the render in which retry was defined
SendTimer(k, seen) == [msg |-> k, status |-> "handleSend", left |-> 0, seen |-> seen]

\* retry(msg) of the simulated widget for its k-th message, a failed one:
\* the message is set to sending, the input to its text, and handleSend is
\* deferred
RetryOf(k) ==
    /\ chat.pc = "on" /\ chat.widget = "simulated"
    /\ chat.sent < MaxSends
    /\ k \in 1..Len(chat.msgs)
    /\ chat.msgs[k].role = "user" /\ chat.msgs[k].status = "failed"
    /\ chat' = [chat EXCEPT
                  !.msgs = SetStatus(@, k, "sending"),
                  !.input = chat.msgs[k].text,
                  !.sent = @ + 1,
                  !.timers = Append(@, SendTimer(k, chat.seen))]
    /\ UNCHANGED <<serverVars, relay>>

Retry == \E k \in 1..Len(chat.msgs) : RetryOf(k)

\* React renders again: the handlers now close over the current state
Render ==
    /\ chat.pc = "on"
    /\ chat.seen # Seen(chat)
    /\ chat' = [chat EXCEPT !.seen = Seen(chat)]
    /\ UNCHANGED <<serverVars, relay>>

\* time passes by one step; no timer is overdue
Tick ==
    /\ chat.pc = "on"
    /\ chat.timers # <<>>
    /\ \A k \in 1..Len(chat.timers) : chat.timers[k].left >= SentDelayMs
    /\ chat' = [chat EXCEPT
                  !.timers = [k \in 1..Len(@) |-> [@[k] EXCEPT !.left = @ - SentDelayMs]],
                  !.calls = {[c EXCEPT !.age = IF @ * SentDelayMs < DeliveredDelayMs
                                               THEN @ + 1 ELSE @] : c \in @}]
    /\ UNCHANGED <<serverVars, relay>>

\* the position of the due timer that was set first (0: none is due)
DueTimer(timers) ==
    IF \E k \in 1..Len(timers) : timers[k].left = 0
    THEN CHOOSE k \in 1..Len(timers) :
            timers[k].left = 0 /\ \A j \in 1..(k - 1) : timers[j].left # 0
    ELSE 0

\* the due timer that was set first fires: the updater of markStatus runs, or
\* the handleSend that retry deferred
FireTimer ==
    /\ chat.pc = "on"
    /\ DueTimer(chat.timers) # 0
    /\ LET k == DueTimer(chat.timers)
           t == chat.timers[k]
           rest == [chat EXCEPT !.timers = SubSeq(@, 1, k - 1) \o SubSeq(@, k + 1, Len(@))]
       IN  chat' = IF t.status = "handleSend" THEN Send(rest, t.seen)
                   ELSE [rest EXCEPT !.msgs = SetStatus(@, t.msg, t.status)]
    /\ UNCHANGED <<serverVars, relay>>

\* the real widget: callAssistantEndpoint resolved with {reply, threadId}
CallResolved ==
    /\ chat.pc = "on" /\ chat.widget = "real"
    /\ \E c \in chat.calls, reply \in ReplyInputs, newTid \in {NoThread, 1, 2} :
         /\ c.threadId # NoThread => newTid = c.threadId
         /\ chat' = [chat EXCEPT
                       !.threadId = IF newTid # NoThread /\ newTid # c.threadId
                                    THEN newTid ELSE @,
                       !.msgs = @ \o Commit("real", IF reply # <<>> THEN reply
                                                    ELSE NoContentText),
                       !.timers = Append(@, Timer(c.msg, "read", 0)),
                       !.sending = FALSE,
                       !.calls = @ \ {c}]
    /\ UNCHANGED <<serverVars, relay>>

\* the real widget: callAssistantEndpoint rejected (a failed fetch or a
\* response that is not ok)
CallRejected ==
    /\ chat.pc = "on" /\ chat.widget = "real"
    /\ \E c \in chat.calls :
         chat' = [chat EXCEPT
                    !.timers = Append(@, Timer(c.msg, "failed", 0)),
                    !.sending = FALSE,
                    !.calls = @ \ {c}]
    /\ UNCHANGED <<serverVars, relay>>

\* the simulated widget: the last character was streamed and onDone runs; the
\* reply takes at least MinReplyChars * ChunkMinMs
SimDone ==
    /\ chat.pc = "on" /\ chat.widget = "simulated"
    /\ \E c \in chat.calls :
         /\ (c.age + 1) * SentDelayMs > MinReplyChars * ChunkMinMs
         /\ chat' = [chat EXCEPT
                       !.msgs = @ \o Commit("simulated", ToyReply),
                       !.timers = Append(@, Timer(c.msg, "read", 0)),
                       !.sending = FALSE,
                       !.calls = @ \ {c}]
    /\ UNCHANGED <<serverVars, relay>>

ChatNext ==
    \/ TypeInput
    \/ HandleSend
    \/ Retry
    \/ Render
    \/ Tick
    \/ FireTimer
    \/ CallResolved
    \/ CallRejected
    \/ SimDone

(***************************************************************************)
(* The streaming chat widget AveryChat (part_000 40-124).  A stream is one *)
(* call of useSSE by send: its AbortController, its connection to the      *)
(* relay and the locals buffer and raf of that send.  send calls the hook  *)
(* useSSE from an event handler: the call either throws (hooks "throws":   *)
(* no effect can be registered outside a render) or runs the effect body   *)
(* as written (hooks "runs").                                              *)
(***************************************************************************)
HookOutcomes == {"throws", "runs"}

Item(role, content) == [role |-> role, content |-> content]

\* the state a render of AveryChat closes over
AverySeen(c) == [input |-> c.input, isStreaming |-> c.isStreaming, items |-> c.items]

NewAvery(hooks) ==
    [pc |-> "on", widget |-> "avery", hooks |-> hooks, items |-> <<>>, input |-> <<>>,
     isStreaming |-> FALSE,
     seen |-> [input |-> <<>>, isStreaming |-> FALSE, items |-> <<>>],
     controllerRef |-> 0, streams |-> <<>>, updates |-> <<>>, sent |-> 0]

\* the tokens of the delta frames of a stream: they alternate, so that two
\* tokens in a row differ
TokenInputs == << <<"a">>, <<"b", SP>> >>
TokenAt(n) == TokenInputs[((n - 1) % Len(TokenInputs)) + 1]

Connected(st) == st.conn \in {"fetching", "open"}

\* mutant: send does not abort the previous controller
AbortSkipped(streams, k) == streams

\* controllerRef.current?.abort(): the fetch or the pending read of that
\* stream rejects and its connection is gone
Abort(streams, k) ==
    [j \in 1..Len(streams) |->
        IF j = k
        THEN [streams[j] EXCEPT !.aborted = TRUE,
                                !.conn = IF Connected(streams[j]) THEN "aborted" ELSE @]
        ELSE streams[j]]

\* what the user types into the input box of AveryChat
AveryInputs == {<<"h", "i", SP>>}

\* the input box is edited
AveryType ==
    /\ chat.pc = "on" /\ chat.widget = "avery"
    /\ \E t \in AveryInputs :
         /\ t # chat.input
         /\ chat' = [chat EXCEPT !.input = t]
    /\ UNCHANGED <<serverVars, relay>>

\* the updaters that flush queued, run in order; each is
\*   prev => prev.map(m => m.id === id ? {...m, content: m.content + buffer} : m)
\* and reads the variable `buffer` of its send when it runs
RECURSIVE RunUpdates(_, _, _)
RunUpdates(items, updates, streams) ==
    IF updates = <<>> THEN items
    ELSE LET st == streams[Head(updates)]
         IN  RunUpdates([items EXCEPT ![st.item].content = @ \o st.buffer],
                        Tail(updates), streams)

\* nothing is waiting for a render
Idle(c) == c.updates = <<>> /\ c.seen = AverySeen(c)

\* React renders: the queued updaters run and the handlers close over the
\* new state
AveryRender ==
    /\ chat.pc = "on" /\ chat.widget = "avery"
    /\ ~Idle(chat)
    /\ LET done == [chat EXCEPT !.items = RunUpdates(@, chat.updates, chat.streams),
                                !.updates = <<>>]
       IN  chat' = [done EXCEPT !.seen = AverySeen(done)]
    /\ UNCHANGED <<serverVars, relay>>

\* send() as the last render defined it
AverySend ==
    /\ chat.pc = "on" /\ chat.widget = "avery"
    /\ chat.sent < MaxSends
    /\ LET msg == Trim(chat.seen.input)
           item == Len(chat.items) + 2
           stream == [item |-> item, aborted |-> FALSE,
                      conn |-> IF chat.hooks = "runs" THEN "fetching" ELSE "none",
                      message |-> msg, history |-> chat.seen.items,
                      early |-> chat.isStreaming,
                      got |-> 0, buffer |-> <<>>, raf |-> FALSE]
       IN  /\ msg # <<>> /\ ~chat.seen.isStreaming
           /\ chat' = [chat EXCEPT
                         !.items = @ \o <<Item("user", msg), Item("assistant", <<>>)>>,
                         !.input = <<>>,
                         !.streams = Append(Abort(@, chat.controllerRef), stream),
                         !.controllerRef = Len(chat.streams) + 1,
                         !.isStreaming = TRUE,
                         !.sent = @ + 1]
    /\ UNCHANGED <<serverVars, relay>>

\* fetch resolved with the response of the relay
StreamOpened ==
    /\ chat.pc = "on" /\ chat.widget = "avery"
    /\ \E k \in 1..Len(chat.streams) :
         /\ chat.streams[k].conn = "fetching"
         /\ chat' = [chat EXCEPT !.streams[k].conn = "open"]
    /\ UNCHANGED <<serverVars, relay>>

\* the number of tokens the streams have received
RECURSIVE TokensGot(_)
TokensGot(streams) ==
    IF streams = <<>> THEN 0 ELSE Head(streams).got + TokensGot(Tail(streams))

\* a delta frame was read: onToken
StreamToken ==
    /\ chat.pc = "on" /\ chat.widget = "avery"
    /\ \E k \in 1..Len(chat.streams) :
         /\ chat.streams[k].conn = "open"
         /\ TokensGot(chat.streams) < MaxTokens
         /\ chat' = [chat EXCEPT !.streams[k].buffer = @ \o TokenAt(chat.streams[k].got + 1),
                                 !.streams[k].got = @ + 1,
                                 !.streams[k].raf = TRUE]
    /\ UNCHANGED <<serverVars, relay>>

\* flush of stream k:  setItems(updater); buffer = ""; raf = 0.  setItems runs
\* the updater at once (eager) or queues it for the next render
Flushed(c, k, eager) ==
    [c EXCEPT !.items[c.streams[k].item].content =
                  IF eager THEN @ \o c.streams[k].buffer ELSE @,
              !.updates = IF eager THEN @ ELSE Append(@, k),
              !.streams[k].buffer = <<>>,
              !.streams[k].raf = FALSE]

\* the animation frame a token requested arrives
AnimationFrame ==
    /\ chat.pc = "on" /\ chat.widget = "avery"
    /\ \E k \in 1..Len(chat.streams), eager \in BOOLEAN :
         /\ chat.streams[k].raf
         /\ eager => Idle(chat)
         /\ chat' = Flushed(chat, k, eager)
    /\ UNCHANGED <<serverVars, relay>>

\* the done frame was read: onDone; the relay closes the stream after it
StreamDone ==
    /\ chat.pc = "on" /\ chat.widget = "avery"
    /\ \E k \in 1..Len(chat.streams), eager \in BOOLEAN :
         /\ chat.streams[k].conn = "open"
         /\ eager => (Idle(chat) /\ chat.streams[k].buffer # <<>>)
         /\ chat' = [(IF chat.streams[k].buffer # <<>> THEN Flushed(chat, k, eager) ELSE chat)
                        EXCEPT !.isStreaming = FALSE, !.streams[k].conn = "ended"]
    /\ UNCHANGED <<serverVars, relay>>

\* the fetch fails, or the stream ends without a done frame (the relay closed
\* it after its error frame): no callback runs
StreamLost ==
    /\ chat.pc = "on" /\ chat.widget = "avery"
    /\ \E k \in 1..Len(chat.streams) :
         /\ Connected(chat.streams[k])
         /\ chat' = [chat EXCEPT !.streams[k].conn = "lost"]
    /\ UNCHANGED <<serverVars, relay>>

AveryNext ==
    \/ AveryType
    \/ AveryRender
    \/ AverySend
    \/ StreamOpened
    \/ StreamToken
    \/ AnimationFrame
    \/ StreamDone
    \/ StreamLost

(***************************************************************************)
(* Initial states and specifications.                                      *)
(***************************************************************************)
ServerInit(m) ==
    /\ variant \in Variants
    /\ mode = m
    /\ env \in [key : BOOLEAN, asst : BOOLEAN]
    /\ variant # "netlify" => env.key
    /\ m # "poll" => (env.key /\ env.asst)
    /\ threadMap = [k \in {} |-> NoThread]
    /\ threads = <<PriorThread>>
    /\ req = [r \in Reqs |-> IdleReq]
    /\ relay = IdleRelay
    /\ chat = IdleChat

InitPoll == ServerInit("poll")
InitSeq == ServerInit("seq")
InitConc == ServerInit("conc")

\* one request, every behaviour of the upstream run
SpecPoll == InitPoll /\ [][ServerNext]_vars
\* requests that do not overlap
SpecSeq == InitSeq /\ [][ServerNext]_vars
\* requests that interleave
SpecConc == InitConc /\ [][ServerNext]_vars
\* one request; the handler keeps running: a call it awaits returns (or
\* throws) and a timer it sleeps on fires
SpecPollFair == InitPoll /\ [][ServerNext]_vars /\ WF_vars(ServerNext)

\* the endpoint as it is while another component is studied
OffServer ==
    /\ variant = "netlify"
    /\ mode = "off"
    /\ env = [key |-> TRUE, asst |-> TRUE]
    /\ threadMap = [k \in {} |-> NoThread]
    /\ threads = <<PriorThread>>
    /\ req = [r \in Reqs |-> IdleReq]

InitRelay ==
    /\ OffServer
    /\ relay = IdleRelay
    /\ chat = IdleChat

SpecRelay == InitRelay /\ [][RelayNext]_vars

InitChat ==
    /\ OffServer
    /\ relay = [IdleRelay EXCEPT !.pc = "off"]
    /\ \E w \in Widgets : \E persisted \in PersistedInputs(w) : chat = NewChat(w, persisted)

SpecChat == InitChat /\ [][ChatNext]_vars

InitAvery ==
    /\ OffServer
    /\ relay = [IdleRelay EXCEPT !.pc = "off"]
    /\ \E h \in HookOutcomes : chat = NewAvery(h)

SpecAvery == InitAvery /\ [][AveryNext]_vars

\* a connection does not stay silent forever (it opens, delivers a frame, or
\* ends), a requested animation frame arrives and a pending render happens
SpecAveryFair ==
    /\ InitAvery /\ [][AveryNext]_vars
    /\ WF_vars(StreamOpened \/ StreamToken \/ StreamDone \/ StreamLost)
    /\ WF_vars(AnimationFrame)
    /\ WF_vars(AveryRender)

(***************************************************************************)
(* Claims about the session index.                                         *)
(***************************************************************************)
\* a POST with valid text, a sessionId and no threadId that the
\* session-indexed (or patched) handler has resolved
Indexed(r) ==
    /\ variant # "netlify"
    /\ req[r].looked
    /\ req[r].sessionId # ""
    /\ req[r].threadId = NoThread

\* C1: in a sequence of requests that do not overlap, once a request of a
\* session has created a conversation and stored it, every later request of
\* that session (valid text, no threadId) creates none, appends its user
\* message to that conversation and returns it as threadId, and the stored
\* mapping stays as it is.
C1_SequentialSameConversation ==
    \A r1, r2 \in Reqs :
        (/\ r1 < r2
         /\ Indexed(r1) /\ Indexed(r2)
         /\ req[r1].sessionId = req[r2].sessionId
         /\ req[r1].created)
        => /\ ~req[r2].created
           /\ req[r2].tId = req[r1].tId
           /\ req[r2].appendedTo \in {NoThread, req[r1].tId}
           /\ (req[r2].resp.code = 200 => req[r2].resp.threadId = req[r1].tId)
           /\ MapGet(threadMap, req[r1].sessionId) = req[r1].tId

\* a later request of the session has completed its turn on the conversation
\* the earlier one created
C1_Witness ==
    \E r1, r2 \in Reqs :
        /\ r1 < r2
        /\ Indexed(r1) /\ Indexed(r2)
        /\ req[r1].sessionId = req[r2].sessionId
        /\ req[r1].created
        /\ req[r2].appendedTo = req[r1].tId
        /\ req[r2].resp.code = 200
        /\ req[r2].resp.threadId = req[r1].tId
        /\ Len(SelectRole(threads[req[r1].tId], "user")) >= 2

\* C9 as stated: all user messages of the requests of one session that carry
\* no threadId go to one and the same conversation, whatever the interleaving.
C9_OneConversationPerSession ==
    \A r1, r2 \in Reqs :
        (/\ Indexed(r1) /\ Indexed(r2)
         /\ req[r1].sessionId = req[r2].sessionId
         /\ req[r1].appendedTo # NoThread
         /\ req[r2].appendedTo # NoThread)
        => req[r1].appendedTo = req[r2].appendedTo

\* C9 as amended: a request whose lookup finds an entry uses the conversation
\* it found and creates none; only a request whose lookup finds no entry
\* creates one, and appends there; so every user message goes to a
\* conversation created by a request of that session whose lookup found the
\* index empty.
C9_RaceBoundedByEarlyLookups ==
    \A r \in Reqs :
        Indexed(r) =>
            /\ (req[r].sawMap # NoThread
                    => (req[r].tId = req[r].sawMap /\ ~req[r].created))
            /\ (req[r].created => req[r].sawMap = NoThread)
            /\ req[r].appendedTo \in {NoThread, req[r].tId}
            /\ (req[r].appendedTo # NoThread
                    => \E q \in Reqs :
                          /\ Indexed(q)
                          /\ req[q].sessionId = req[r].sessionId
                          /\ req[q].created
                          /\ req[q].sawMap = NoThread
                          /\ req[q].tId = req[r].appendedTo)

\* two requests of one session raced: both looked up an empty index, both
\* created a conversation, and their messages went to different conversations
C9_Witness ==
    \E r1, r2 \in Reqs :
        /\ r1 # r2
        /\ Indexed(r1) /\ Indexed(r2)
        /\ req[r1].sessionId = req[r2].sessionId
        /\ req[r1].created /\ req[r2].created
        /\ req[r1].appendedTo # NoThread
        /\ req[r2].appendedTo # NoThread
        /\ req[r1].appendedTo # req[r2].appendedTo

\* C10 as stated: a stored mapping is never removed and never replaced by a
\* different conversationId.
C10_MappingNeverReplaced ==
    [][\A sid \in DOMAIN threadMap :
          sid \in DOMAIN threadMap' /\ threadMap'[sid] = threadMap[sid]]_vars

(***************************************************************************)
(* Claims about the polling loop.                                          *)
(***************************************************************************)
\* C4 as stated: when the first terminal status the handler observes within
\* its budget is failed, cancelled or expired, the response is 500 with that
\* status as its error and carries no reply.
C4_FailureStatusReported ==
    \A r \in Reqs :
        (req[r].pc = "done" /\ req[r].exit = "terminal" /\ req[r].status \in Failures)
        => /\ req[r].resp.code = 500
           /\ req[r].resp.error = req[r].status
           /\ ~req[r].resp.hasReply

\* C5 as stated: when every poll returned a non-terminal status until the
\* budget ran out, the response is 500 and carries no reply.
C5_TimeoutIsAnError ==
    \A r \in Reqs :
        (req[r].pc = "done" /\ req[r].exit = "timeout")
        => /\ req[r].resp.code = 500
           /\ ~req[r].resp.hasReply

(***************************************************************************)
(* Claims about the streaming relay.                                       *)
(***************************************************************************)
\* the JSON text of a frame that starts with data: and ends with a blank line
FrameJson(f) == JsonParse(SubSeq(f, 2, Len(f) - 2))

IsDataFrame(f) ==
    /\ Len(f) >= 3
    /\ Head(f) = "data:"
    /\ f[Len(f) - 1] = NL /\ f[Len(f)] = NL
    /\ FrameJson(f).ok

IsDone(f) == IsDataFrame(f) /\ FieldIs(FrameJson(f).obj, "type", <<"done">>)
IsError(f) ==
    \/ (f # <<>> /\ Head(f) = "event: error")
    \/ (IsDataFrame(f) /\ FieldIs(FrameJson(f).obj, "type", <<"error">>))
IsTerminal(f) == IsDone(f) \/ IsError(f)

\* C6: a terminal frame (done or error) is the last frame written and is
\* written as the stream closes; a closed stream ends with one; done and
\* error never both occur.
C6_ExactlyOneTerminalEvent ==
    /\ \A k \in 1..Len(relay.out) :
          IsTerminal(relay.out[k]) => (k = Len(relay.out) /\ relay.pc = "closed")
    /\ relay.pc = "closed"
          => (relay.out # <<>> /\ IsTerminal(relay.out[Len(relay.out)]))
    /\ ~(\E j, k \in 1..Len(relay.out) : IsDone(relay.out[j]) /\ IsError(relay.out[k]))

\* the upstream raised after two tokens were relayed: two delta frames and
\* then the one terminal frame
C6_Witness ==
    /\ relay.pc = "closed"
    /\ relay.raised
    /\ Len(relay.out) = 3
    /\ IsError(relay.out[3])
    /\ ~IsTerminal(relay.out[1]) /\ ~IsTerminal(relay.out[2])

\* C7 as stated: when the upstream call raises before any token, the
\* response is a 200 text/event-stream whose only frame is data:<JSON> with
\* JSON {type: error, message}, and the reader of useSSE reports it as the
\* terminal error.
C7_ErrorFrameWellFormed ==
    (relay.pc = "closed" /\ relay.raised /\ relay.yielded = <<>>)
    => /\ relay.code = 200
       /\ relay.ctype = "text/event-stream; charset=utf-8"
       /\ Len(relay.out) = 1
       /\ IsDataFrame(relay.out[1])
       /\ FieldIs(FrameJson(relay.out[1]).obj, "type", <<"error">>)
       /\ HasKey(FrameJson(relay.out[1]).obj, "message")
       /\ (relay.reader = "ended"
              => \E k \in 1..Len(relay.events) : relay.events[k].cb = "onError")

\* the delta values of the frames written, in order
RECURSIVE DeltasOf(_)
DeltasOf(out) ==
    IF out = <<>> THEN <<>>
    ELSE (IF IsDataFrame(Head(out)) /\ FieldIs(FrameJson(Head(out)).obj, "type", <<"delta">>)
          THEN <<Field(FrameJson(Head(out)).obj, "delta")>>
          ELSE <<>>) \o DeltasOf(Tail(out))

\* the non-empty content tokens of the chunks yielded, in order
RECURSIVE TokensOf(_)
TokensOf(chunks) ==
    IF chunks = <<>> THEN <<>>
    ELSE (IF Head(chunks).has /\ Head(chunks).content # <<>>
          THEN <<Head(chunks).content>> ELSE <<>>) \o TokensOf(Tail(chunks))

\* C8: at every moment the delta frames written carry exactly the non-empty
\* tokens the upstream generator has yielded, in order and once each, so the
\* concatenations agree too.
C8_DeltasAreTheTokens ==
    /\ DeltasOf(relay.out) = TokensOf(relay.yielded)
    /\ Flatten(DeltasOf(relay.out)) = Flatten(TokensOf(relay.yielded))

\* a finished stream of three chunks: a token, an empty chunk, another token
C8_Witness ==
    /\ relay.pc = "closed"
    /\ ~relay.raised
    /\ Len(relay.yielded) = 3
    /\ TokensOf(relay.yielded) = <<relay.yielded[1].content, relay.yielded[3].content>>
    /\ relay.yielded[1].content # relay.yielded[3].content
    /\ Len(DeltasOf(relay.out)) = 2

(***************************************************************************)
(* Claims about the delivery status of a user message.                     *)
(***************************************************************************)
Rank(status) ==
    CASE status = "sending" -> 1
      [] status = "sent" -> 2
      [] status = "delivered" -> 3
      [] status = "read" -> 4
      [] OTHER -> 0

\* C2 as stated: every change of a message's status, other than by a retry of
\* the user, goes forward along sending < sent < delivered < read, or goes to
\* failed.
C2_StatusNeverRegresses ==
    [][\A k \in 1..Len(chat.msgs) :
          (chat.msgs'[k].status # chat.msgs[k].status /\ ~RetryOf(k))
          => \/ chat.msgs'[k].status = "failed"
             \/ (/\ chat.msgs[k].status # "failed"
                 /\ Rank(chat.msgs'[k].status) > Rank(chat.msgs[k].status))]_vars

\* C3 as stated: a message whose status is failed keeps that status in every
\* step that is not a retry of the user.
C3_FailedIsTerminal ==
    [][\A k \in 1..Len(chat.msgs) :
          (chat.msgs[k].status = "failed" /\ ~RetryOf(k))
          => chat.msgs'[k].status = "failed"]_vars

(***************************************************************************)
(* Claims about a supplied threadId, the configuration and retry.          *)
(***************************************************************************)
\* a POST with valid text, a sessionId and a threadId that the session-indexed
\* (or patched) handler has resolved
BothSupplied(r) ==
    /\ variant # "netlify"
    /\ req[r].looked
    /\ req[r].sessionId # ""
    /\ req[r].threadId # NoThread

\* C11 as stated: a request that carries a sessionId and a threadId t uses t,
\* and from then until a later request of that session is handled the index
\* maps the sessionId to t; the following request of the session without a
\* threadId finds and uses t.
C11_SuppliedThreadIndexed ==
    \A r \in Reqs :
        BothSupplied(r) =>
            /\ req[r].tId = req[r].threadId
            /\ ((\A q \in Reqs : q > r => ~req[q].looked)
                    => MapGet(threadMap, req[r].sessionId) = req[r].threadId)
            /\ \A q \in Reqs :
                  (q = r + 1 /\ Indexed(q) /\ req[q].sessionId = req[r].sessionId)
                  => (req[q].sawMap = req[r].threadId /\ ~req[q].created)

\* the request has passed validation and neither its body nor the environment
\* names an assistant
NoAssistant(r) ==
    /\ req[r].looked
    /\ IF variant = "netlify" THEN req[r].asstId = "" ELSE ~env.asst

\* C12 as stated: without an assistant id from the body or the environment
\* the handler creates no conversation, appends no user message, starts no
\* run, and its response is a 500.
C12_ConfigErrorBeforeUpstream ==
    \A r \in Reqs :
        NoAssistant(r) =>
            /\ ~req[r].created
            /\ req[r].appendedTo = NoThread
            /\ ~req[r].runStarted
            /\ (req[r].pc = "done" => req[r].resp.code = 500)

\* C13 as stated: retry leaves the failed message as it is, and the send it
\* defers appends a new message in sending state with the text of the failed
\* message.
C13_RetryCreatesNewMessage ==
    [][/\ \A k \in 1..Len(chat.msgs) : RetryOf(k) => chat.msgs'[k] = chat.msgs[k]
       /\ (/\ chat.pc = "on"
           /\ DueTimer(chat.timers) # 0
           /\ chat.timers[DueTimer(chat.timers)].status = "handleSend")
          => LET k == chat.timers[DueTimer(chat.timers)].msg
             IN  /\ Len(chat.msgs') = Len(chat.msgs) + 1
                 /\ chat.msgs'[Len(chat.msgs')] = ChatMsg("user", chat.msgs[k].text, "sending")
                 /\ chat.msgs'[k] = chat.msgs[k]]_vars

(***************************************************************************)
(* Claims about the streaming chat widget.                                 *)
(***************************************************************************)
\* C19: at most one stream of the widget has a connection; it is the stream
\* of the controller in controllerRef; the controller of every other stream
\* has been aborted.
C19_OneActiveStream ==
    /\ Cardinality({k \in 1..Len(chat.streams) : Connected(chat.streams[k])}) <= 1
    /\ \A k \in 1..Len(chat.streams) :
          /\ Connected(chat.streams[k]) => k = chat.controllerRef
          /\ k # chat.controllerRef => chat.streams[k].aborted

\* send ran twice before the widget rendered isStreaming true: the second
\* send aborted the connection of the first and holds the only connection
C19_Witness ==
    /\ chat.hooks = "runs"
    /\ Len(chat.streams) = 2
    /\ chat.streams[2].early
    /\ chat.streams[1].conn = "aborted"
    /\ Connected(chat.streams[2])

(***************************************************************************)
(* Claims about one turn of the non-streaming endpoint.                    *)
(***************************************************************************)
\* the text of the body is a non-empty string
ValidText(r) == req[r].text.type = "string" /\ req[r].text.chars # <<>>

\* a request without threadId whose lookup found no mapping
Fresh(r) == req[r].looked /\ req[r].threadId = NoThread /\ req[r].sawMap = NoThread

\* the turn of r ended with its run completed, no call having thrown, and
\* the run left an assistant message with non-blank text behind the user
\* message
CompletedWithText(r) ==
    /\ req[r].pc = "done"
    /\ req[r].exit = "completed"
    /\ req[r].caught = ""
    /\ req[r].tId \in 1..Len(threads)
    /\ Len(threads[req[r].tId]) >= 2
    /\ LET last == threads[req[r].tId][Len(threads[req[r].tId])]
       IN  /\ last.role = "assistant"
           /\ \E k \in 1..Len(last.content) :
                 last.content[k].type = "text" /\ Trim(last.content[k].value) # <<>>

\* C14: for a request without threadId and without a mapping, the run is
\* started only after the one append, the append is made only after the one
\* create and to the conversation created; when the run completes with
\* non-blank text, the conversation holds exactly the user message with the
\* text and the assistant message, and the response is 200 with the new id
\* and a non-empty reply.
C14_HappyPath ==
    \A r \in Reqs :
        Fresh(r) =>
            /\ req[r].runStarted => req[r].appendedTo # NoThread
            /\ req[r].appendedTo # NoThread
                  => (req[r].created /\ req[r].appendedTo = req[r].tId)
            /\ req[r].created
                  => (req[r].tId = Len(threads) /\ Len(threads) = Len(<<PriorThread>>) + 1)
            /\ CompletedWithText(r)
                  => /\ req[r].created /\ req[r].runStarted
                     /\ Len(threads[req[r].tId]) = 2
                     /\ threads[req[r].tId][1] = UserMsg(req[r].text)
                     /\ req[r].resp.code = 200
                     /\ req[r].resp.threadId = req[r].tId
                     /\ req[r].resp.hasReply
                     /\ req[r].resp.reply # <<>>
                     /\ req[r].resp.error = ""

\* a turn on a new conversation that completed with the reply text of the run
C14_Witness ==
    \E r \in Reqs :
        /\ Fresh(r) /\ CompletedWithText(r)
        /\ req[r].created
        /\ req[r].resp.code = 200
        /\ req[r].resp.reply = <<"o", "k">>
        /\ req[r].resp.threadId = Len(threads)

\* C15 as stated: a non-POST request is answered 405, a POST whose body has
\* no text, an empty text or a text that is not a string is answered 400; in
\* both cases nothing is created, appended or started and the index is as it
\* was.
C15_RejectsBadRequests ==
    \A r \in Reqs :
        /\ (req[r].pc # "idle" /\ req[r].method # "POST")
              => (req[r].pc = "done" /\ req[r].resp.code = 405)
        /\ (req[r].parsed /\ ~ValidText(r))
              => /\ req[r].pc = "done"
                 /\ req[r].resp.code = 400
                 /\ ~req[r].created /\ req[r].appendedTo = NoThread /\ ~req[r].runStarted
                 /\ DOMAIN threadMap = {}

\* C16 as stated: a POST with valid text that lacks the sessionId or the
\* threadId passes validation: it is not answered 400 and a conversation is
\* resolved for it.
C16_OptionalIdsAccepted ==
    \A r \in Reqs :
        (/\ req[r].parsed /\ ValidText(r)
         /\ (req[r].sessionId = "" \/ req[r].threadId = NoThread))
        => /\ req[r].resp.code # 400
           /\ req[r].looked

\* C18 as stated: the error body does not depend on the text of the error an
\* upstream call threw: it is one of the fixed messages of the handlers.
C18_NoErrorDetailForwarded ==
    \A r \in Reqs :
        req[r].caught \in UpstreamErrors
        => req[r].resp.error \in {"Internal Server Error", "Unknown error"}

\* C20 as stated: a handler that polls eventually responds.
C20_PollingTerminates ==
    \A r \in Reqs : (req[r].pc = "polling") ~> (req[r].pc = "done")

(***************************************************************************)
(* Claims about the relay and a client that does not read.                 *)
(***************************************************************************)
\* the default high water mark of a ReadableStream built without a strategy
HighWaterMark == 1

\* the frames of out that the reader has not read to their end, rd atoms of
\* the body having been read
RECURSIVE UnreadFrames(_, _)
UnreadFrames(out, rd) ==
    IF out = <<>> THEN 0
    ELSE IF Len(Head(out)) <= rd THEN UnreadFrames(Tail(out), rd - Len(Head(out)))
    ELSE Len(out)

\* C17 as stated: the frames enqueued and not yet read never exceed the high
\* water mark of the stream, and the relay takes a chunk from the upstream
\* generator only while there is room below it.
C17_Backpressure ==
    /\ relay.pc \in {"streaming", "closed"}
          => UnreadFrames(relay.out, relay.rd) <= HighWaterMark + 1
    /\ (relay.pc = "streaming" /\ Len(relay.yielded) > 1)
          => UnreadFrames(relay.out, relay.rd) <= HighWaterMark

(***************************************************************************)
(* Claims about the reply of the non-streaming endpoint.                   *)
(***************************************************************************)
\* the position of the newest message of the role in the thread (0: none)
NewestOf(thread, role) ==
    IF \E k \in 1..Len(thread) : thread[k].role = role
    THEN CHOOSE k \in 1..Len(thread) :
            thread[k].role = role /\ \A j \in (k + 1)..Len(thread) : thread[j].role # role
    ELSE 0

\* C21 as stated: a 200 response with a reply is sent only when the run of
\* the request was observed completed, and the assistant message the reply is
\* taken from (the newest of the conversation) is not older than the user
\* message of the request.
C21_NoStaleReply ==
    \A r \in Reqs :
        (req[r].pc = "done" /\ req[r].resp.code = 200 /\ req[r].resp.hasReply)
        => /\ req[r].exit = "completed"
           /\ LET th == threads[req[r].tId]
              IN  NewestOf(th, "assistant") = 0
                  \/ NewestOf(th, "assistant") > NewestOf(th, "user")

(***************************************************************************)
(* Claims about a turn of the chat widget.                                 *)
(***************************************************************************)
\* C22 as stated: a user message of this visit whose status is read is
\* followed in the message list by an assistant message.
C22_ReadImpliesReply ==
    chat.pc = "on" =>
        \A k \in 1..Len(chat.msgs) :
            (chat.msgs[k].role = "user" /\ chat.msgs[k].status = "read")
            => \E j \in (k + 1)..Len(chat.msgs) : chat.msgs[j].role = "assistant"

\* C27 as stated: at most one call of the endpoint (or one simulated reply)
\* is pending at any time.
C27_OneTurnInFlight ==
    chat.pc = "on" => Cardinality(chat.calls) <= 1

(***************************************************************************)
(* Claims about the streaming chat widget: batching and the end of a turn. *)
(***************************************************************************)
\* the concatenation of the first n tokens of a stream
RECURSIVE Received(_)
Received(n) == IF n = 0 THEN <<>> ELSE Received(n - 1) \o TokenAt(n)

\* C24 as stated: when a stream has ended with done and every flush has taken
\* effect, the assistant message holds the tokens received, in order.
C24_ContentIsConcatenation ==
    (chat.pc = "on" /\ chat.widget = "avery") =>
        \A k \in 1..Len(chat.streams) :
            (/\ chat.streams[k].conn = "ended"
             /\ ~chat.streams[k].raf
             /\ chat.updates = <<>>)
            => chat.items[chat.streams[k].item].content = Received(chat.streams[k].got)

\* C23 as stated: whenever isStreaming is true it eventually becomes false
\* again, however the stream of the send ends.
C23_StreamingEventuallyStops ==
    (chat.pc = "on" /\ chat.isStreaming) ~> (chat.pc = "on" /\ ~chat.isStreaming)

(***************************************************************************)
(* Claims about the reassembly of frames by useSSE.                        *)
(***************************************************************************)
\* the callbacks the frames of a stream without error call for: onToken for
\* each token relayed and, once the relay wrote the done frame, onDone
ExpectedEvents ==
    [k \in 1..Len(TokensOf(relay.yielded)) |->
        [cb |-> "onToken", arg |-> TokensOf(relay.yielded)[k]]]
    \o (IF relay.pc = "closed" THEN <<[cb |-> "onDone", arg |-> <<>>]>> ELSE <<>>)

\* C25: however the body of a stream without error is split into reads, the
\* reader never throws, the callbacks made so far are the first ones of the
\* expected sequence, and once the whole body is read they are all of it:
\* the tokens in order, then onDone once.
C25_ChunkBoundaryIndependent ==
    (relay.code = 200 /\ ~relay.raised) =>
        /\ relay.reader # "thrown"
        /\ Len(relay.events) <= Len(ExpectedEvents)
        /\ relay.events = SubSeq(ExpectedEvents, 1, Len(relay.events))
        /\ (relay.pc = "closed" /\ relay.rd = Len(Flatten(relay.out)))
              => relay.events = ExpectedEvents
        /\ relay.reader = "ended" => relay.events = ExpectedEvents

\* a read ended between the two newlines of a separator, after an earlier
\* frame was reported and with the next frame only partly read
C25_Witness ==
    /\ relay.code = 200 /\ ~relay.raised
    /\ Len(relay.events) >= 1
    /\ Len(relay.buffer) >= 2
    /\ relay.buffer[Len(relay.buffer)] = NL
    /\ relay.buffer[Len(relay.buffer) - 1] # NL
    /\ Len(TokensOf(relay.yielded)) >= 2

(***************************************************************************)
(* Claims about the order of append and run.                               *)
(***************************************************************************)
\* the conversation of r holds a user message with the text of r
HoldsUserMessage(r) ==
    /\ req[r].tId \in 1..Len(threads)
    /\ \E k \in 1..Len(threads[req[r].tId]) :
          /\ threads[req[r].tId][k].role = "user"
          /\ threads[req[r].tId][k].content =
                <<[type |-> "text", value |-> req[r].text.chars]>>

\* C26: a handler that is starting, polling or listing, and every handler
\* that started a run, has appended its user message to its conversation,
\* which holds it; a handler that ended without the append has started no
\* run and its response is an error without reply.
C26_RunAfterAppend ==
    \A r \in Reqs :
        /\ (req[r].runStarted \/ req[r].pc \in {"starting", "polling", "listing"})
              => (req[r].appendedTo = req[r].tId /\ HoldsUserMessage(r))
        /\ (req[r].pc = "done" /\ req[r].appendedTo = NoThread)
              => /\ ~req[r].runStarted
                 /\ req[r].resp.code # 200
                 /\ ~req[r].resp.hasReply

\* the append of a request failed after its conversation was created: the
\* catch clause answered 500 and no run was started
C26_Witness ==
    \E r \in Reqs :
        /\ req[r].pc = "done"
        /\ req[r].created
        /\ req[r].appendedTo = NoThread
        /\ req[r].caught \in UpstreamErrors
        /\ req[r].resp.code = 500
        /\ ~req[r].runStarted

(***************************************************************************)
(* Claims about the extraction of the reply.                               *)
(***************************************************************************)
\* the values of the text-typed segments of a content, in order
RECURSIVE TextValues(_)
TextValues(content) ==
    IF content = <<>> THEN <<>>
    ELSE (IF Head(content).type = "text" THEN <<Head(content).value>> ELSE <<>>)
         \o TextValues(Tail(content))

\* C28 as stated: on a completed run on a conversation that holds an
\* assistant message, the reply is the text segments of the newest assistant
\* message joined by single newlines and trimmed.
C28_ReplyIsJoinedText ==
    \A r \in Reqs :
        (/\ req[r].pc = "done" /\ req[r].exit = "completed" /\ req[r].caught = ""
         /\ NewestOf(threads[req[r].tId], "assistant") # 0)
        => LET th == threads[req[r].tId]
               newest == th[NewestOf(th, "assistant")]
           IN  /\ req[r].resp.code = 200
               /\ req[r].resp.hasReply
               /\ req[r].resp.reply = Trim(JoinNL(TextValues(newest.content)))

\* C29 as stated: on a completed run on a conversation without an assistant
\* message the response is 200 with the threadId and a reply field that
\* holds the empty-reply sentinel of the handler.
C29_EmptyReplySentinel ==
    \A r \in Reqs :
        (/\ req[r].pc = "done" /\ req[r].exit = "completed" /\ req[r].caught = ""
         /\ NewestOf(threads[req[r].tId], "assistant") = 0)
        => /\ req[r].resp.code = 200
           /\ req[r].resp.threadId = req[r].tId
           /\ req[r].resp.hasReply
           /\ req[r].resp.reply \in {<<>>, NoResponseText}

(***************************************************************************)
(* Claim about the request the streaming endpoint sends upstream.          *)
(***************************************************************************)
\* C30: the upstream request is the system preamble, the last min(n, 16)
\* entries of the supplied history in their order, and the trimmed user
\* message as the final entry, at most 18 entries in all; a history that
\* is not an array contributes no entry.
C30_UpstreamRequest ==
    relay.pc = "opening" =>
        LET h == relay.body.history
            n == IF h.kind = "array" THEN Len(h.items) ELSE 0
            k == IF n < 16 THEN n ELSE 16
            u == relay.upstream
        IN  /\ Len(u) = k + 2
            /\ Len(u) <= 18
            /\ u[1] = [role |-> "system", content |-> AVERY_SYSTEM]
            /\ \A j \in 1..k : u[1 + j] = h.items[n - k + j]
            /\ u[k + 2] = [role |-> "user", content |-> Trim(relay.body.message.chars)]

C30_Witness ==
    /\ relay.pc = "opening"
    /\ relay.body.history.kind = "array"
    /\ Len(relay.body.history.items) > 16
    /\ Len(relay.upstream) = 18
    /\ relay.upstream[2] = relay.body.history.items[Len(relay.body.history.items) - 15]
    /\ relay.body.message.chars # relay.upstream[18].content

====
